---- MODULE Spec2Model ----
\* Order admission for a cinema: OrderViewSet.perform_create ->
\* OrderSerializer.create -> TicketCreateSerializer.validate / save, running
\* inside transaction.atomic() against one shared store (cinema/serializers.py,
\* cinema/views.py).  Each request handler runs one POST /orders call; the
\* handlers interleave at every database operation.
EXTENDS Integers, Sequences, FiniteSets, TLC

\* ---------------------------------------------------------------- bounds

\* Longest "tickets" list a request carries.
MaxTickets == 2
\* Largest hall dimension drawn for the geometry specification.
MaxHallDim == 3

\* ---------------------------------------------------------------- catalog

\* The two concurrent request handlers (thread-per-request).
Handlers == {"h1", "h2"}

\* The ids of the two users who place orders.
Users == {1, 2}

\* CinemaHall rows of the catalog: rows and seats_in_row.
CinemaHalls == [a |-> [rows |-> 2, seats_in_row |-> 1],
                b |-> [rows |-> 1, seats_in_row |-> 1]]

\* MovieSession rows of the catalog: session id -> its cinema_hall.
MovieSessions == (1 :> "a") @@ (2 :> "b")

SessionIds == DOMAIN MovieSessions

\* cinema_hall.capacity (cinema/models.py, not among the sources): rows * seats_in_row.
Capacity(hall) == hall.rows * hall.seats_in_row

Item(s, r, c) == [movie_session |-> s, row |-> r, seat |-> c]

\* The ticket payloads a request may carry: every seat that exists, a row
\* outside the hall of session 2 (but inside the hall of session 1), and a
\* session id that does not exist.  The geometry specification below covers
\* the range checks over whole grids of halls, rows and seats.
ValidItems == {Item(1, 1, 1), Item(1, 2, 1), Item(2, 1, 1)}

InvalidItems == {Item(2, 2, 1), Item(3, 1, 1)}

RequestItems == ValidItems \cup InvalidItems

RECURSIVE SeqsUpTo(_, _)
SeqsUpTo(S, n) ==
    IF n = 0 THEN {<<>>}
    ELSE LET shorter == SeqsUpTo(S, n - 1)
         IN  shorter \cup {Append(q, x) : q \in {w \in shorter : Len(w) = n - 1}, x \in S}

\* The values request.data.get('tickets') can have when the key is present.
TicketLists == SeqsUpTo(RequestItems, MaxTickets)

Range(q) == {q[i] : i \in 1 .. Len(q)}

\* ---------------------------------------------------------------- state

VARIABLES
    orders,          \* committed Order rows: [id, user]
    tickets,         \* committed Ticket rows: [order, movie_session, row, seat]
    nextOrderId,     \* the Order table's id sequence
    pc,              \* per handler: "idle", "validate", "save", "done"
    user,            \* per handler: request.user
    has_tickets,     \* per handler: whether request.data has the key 'tickets'
    tickets_data,    \* per handler: request.data.get('tickets') ([] when absent)
    idx,             \* per handler: 1-based position of the for loop in tickets_data
    order,           \* per handler: id of the Order created in its transaction (0: none)
    stagedTickets,   \* per handler: Ticket rows written in its open transaction
    result,          \* per handler: how the call ended ("none" while it runs)
    gHall, gRow, gSeat, gVerdict,  \* geometry specification: inputs and verdict
    gTaken, gError   \* geometry specification: whether a Ticket row holds the
                     \* seat, and the outcome of validate() as a whole

vars == <<orders, tickets, nextOrderId, pc, user, has_tickets, tickets_data, idx,
          order, stagedTickets, result, gHall, gRow, gSeat, gVerdict, gTaken, gError>>

geomVars == <<gHall, gRow, gSeat, gVerdict, gTaken, gError>>

\* ---------------------------------------------------------------- pure parts

\* Fault variant of ValidateGeometry: the seat is checked before the row.
ValidateGeometrySeatFirst(ticket_row, ticket_seat, cinema_hall) ==
    IF ~(1 <= ticket_seat /\ ticket_seat <= cinema_hall.seats_in_row) THEN "seat"
    ELSE IF ~(1 <= ticket_row /\ ticket_row <= cinema_hall.rows) THEN "row"
    ELSE "ok"

\* Fault variant of ValidateGeometry: the upper bounds are exclusive.
ValidateGeometryExclusive(ticket_row, ticket_seat, cinema_hall) ==
    IF ~(1 <= ticket_row /\ ticket_row < cinema_hall.rows) THEN "row"
    ELSE IF ~(1 <= ticket_seat /\ ticket_seat < cinema_hall.seats_in_row) THEN "seat"
    ELSE "ok"

\* TicketCreateSerializer.validate, validation 1: "ok", or the field whose range
\* check raised ValidationError.
ValidateGeometry(ticket_row, ticket_seat, cinema_hall) ==
    IF ~(1 <= ticket_row /\ ticket_row <= cinema_hall.rows) THEN "row"
    ELSE IF ~(1 <= ticket_seat /\ ticket_seat <= cinema_hall.seats_in_row) THEN "seat"
    ELSE "ok"

\* Fault variant of SeatTaken: the lookup filters on a session that never
\* matches, so no seat is ever found taken.
SeatNeverTaken(rows, item) == FALSE

\* TicketCreateSerializer.validate, validation 2:
\* Ticket.objects.filter(movie_session=, row=, seat=).exists() over the rows
\* the querying transaction can see.
SeatTaken(rows, item) ==
    \E t \in rows : /\ t.movie_session = item.movie_session
                    /\ t.row = item.row
                    /\ t.seat = item.seat

\* TicketCreateSerializer.validate as a whole, for attrs whose movie_session
\* is in cinema_hall and a query that sees `rows`: "ok", or the
\* ValidationError raised, the range checks first and the lookup after them.
Validate(attrs, cinema_hall, rows) ==
    LET geometry == ValidateGeometry(attrs.row, attrs.seat, cinema_hall)
    IN  IF geometry = "row" THEN "GeometryError.row"
        ELSE IF geometry = "seat" THEN "GeometryError.seat"
        ELSE IF SeatTaken(rows, attrs) THEN "SeatTaken"
        ELSE "ok"

\* Fault variant of NewTicket: save() called without order=order.
NewTicketWithoutOrder(item, orderId) ==
    [order |-> 0, movie_session |-> item.movie_session,
     row |-> item.row, seat |-> item.seat]

\* The Ticket row ticket_serializer.save(order=order) writes.
NewTicket(item, orderId) ==
    [order |-> orderId, movie_session |-> item.movie_session,
     row |-> item.row, seat |-> item.seat]

\* Fault variant of UniqueViolation: the Ticket table has no uniqueness
\* constraint.
NoUniqueConstraint(rows, t) == FALSE

\* The store's uniqueness constraint over (movie_session, row, seat): whether
\* writing row t next to `rows` violates it.
UniqueViolation(rows, t) ==
    \E u \in rows : /\ u.movie_session = t.movie_session
                    /\ u.row = t.row
                    /\ u.seat = t.seat

\* Fault variant of Visible: the query does not see the rows its own
\* transaction has written.
VisibleCommittedOnly(p) == tickets

\* What a query inside handler p's transaction reads: the committed rows and
\* the rows p itself has written (read committed).
Visible(p) == tickets \cup stagedTickets[p]

\* Fault variant of GetQueryset: the class-level queryset Order.objects.all(),
\* without the filter on the user.
GetQuerysetUnfiltered(u) == orders

\* OrderViewSet.get_queryset: Order.objects.filter(user=request.user).
GetQueryset(u) == {o \in orders : o.user = u}

\* Fault variant of TicketsAvailable: the count runs over the whole Ticket
\* table instead of the session's own tickets.
TicketsAvailableCountingAll(s) ==
    Capacity(CinemaHalls[MovieSessions[s]]) - Cardinality(tickets)

\* MovieSessionViewSet.get_queryset, action "list":
\* tickets_available = F("cinema_hall__capacity") - Count("tickets").
TicketsAvailable(s) ==
    Capacity(CinemaHalls[MovieSessions[s]])
        - Cardinality({t \in tickets : t.movie_session = s})

\* ---------------------------------------------------------------- actions

Init ==
    /\ orders = {}
    /\ tickets = {}
    /\ nextOrderId = 1
    /\ pc = [p \in Handlers |-> "idle"]
    /\ user = [p \in Handlers |-> 1]
    /\ has_tickets = [p \in Handlers |-> FALSE]
    /\ tickets_data = [p \in Handlers |-> <<>>]
    /\ idx = [p \in Handlers |-> 1]
    /\ order = [p \in Handlers |-> 0]
    /\ stagedTickets = [p \in Handlers |-> {}]
    /\ result = [p \in Handlers |-> "none"]
    /\ gHall = [rows |-> 1, seats_in_row |-> 1]
    /\ gRow = 1
    /\ gSeat = 1
    /\ gVerdict = "unchecked"
    /\ gTaken = FALSE
    /\ gError = "unchecked"

\* Fault variant of Raise: no transaction around the writes, so the Order row
\* and the Ticket rows written before the exception stay in the store.
RaiseWithoutRollback(p, error) ==
    /\ orders' = orders \cup {[id |-> order[p], user |-> user[p]]}
    /\ tickets' = tickets \cup stagedTickets[p]
    /\ stagedTickets' = [stagedTickets EXCEPT ![p] = {}]
    /\ result' = [result EXCEPT ![p] = error]
    /\ pc' = [pc EXCEPT ![p] = "done"]
    /\ UNCHANGED idx

\* An exception leaves the `with transaction.atomic()` block: the transaction
\* is rolled back (the Order row and every Ticket row written in it are
\* discarded) and the exception reaches the caller.
Raise(p, error) ==
    /\ stagedTickets' = [stagedTickets EXCEPT ![p] = {}]
    /\ result' = [result EXCEPT ![p] = error]
    /\ pc' = [pc EXCEPT ![p] = "done"]
    /\ UNCHANGED <<orders, tickets, idx>>

\* perform_create and the head of OrderSerializer.create: serializer.save(
\* user=request.user), read request.data.get('tickets'), enter
\* transaction.atomic() and Order.objects.create(**validated_data).
CreateOrder(p) ==
    /\ pc[p] = "idle"
    /\ \E u \in Users, present \in BOOLEAN :
         \E data \in (IF present THEN TicketLists ELSE {<<>>}) :
            /\ user' = [user EXCEPT ![p] = u]
            /\ has_tickets' = [has_tickets EXCEPT ![p] = present]
            /\ tickets_data' = [tickets_data EXCEPT ![p] = data]
    /\ order' = [order EXCEPT ![p] = nextOrderId]
    /\ nextOrderId' = nextOrderId + 1
    /\ idx' = [idx EXCEPT ![p] = 1]
    /\ pc' = [pc EXCEPT ![p] = "validate"]
    /\ UNCHANGED <<orders, tickets, stagedTickets, result, geomVars>>

\* `for ticket_data in tickets_data` when the key was absent: tickets_data is
\* None, iterating it raises TypeError inside the atomic block.
IterateNone(p) ==
    /\ pc[p] = "validate"
    /\ ~has_tickets[p]
    /\ Raise(p, "TypeError")
    /\ UNCHANGED <<nextOrderId, user, has_tickets, tickets_data, order, geomVars>>

\* Fault variant of ValidateTicket: an item that fails validation is skipped
\* silently and the loop goes on with the next one.
ValidateTicketSkipping(p) ==
    /\ pc[p] = "validate"
    /\ has_tickets[p]
    /\ idx[p] <= Len(tickets_data[p])
    /\ LET attrs == tickets_data[p][idx[p]]
           valid == /\ attrs.movie_session \in SessionIds
                    /\ ValidateGeometry(attrs.row, attrs.seat,
                           CinemaHalls[MovieSessions[attrs.movie_session]]) = "ok"
                    /\ ~SeatTaken(Visible(p), attrs)
       IN  IF valid
             THEN /\ pc' = [pc EXCEPT ![p] = "save"]
                  /\ UNCHANGED idx
           ELSE /\ idx' = [idx EXCEPT ![p] = @ + 1]
                /\ UNCHANGED pc
    /\ UNCHANGED <<orders, tickets, stagedTickets, result, nextOrderId, user,
                   has_tickets, tickets_data, order, geomVars>>

\* Fault variant of ValidateTicket: is_valid() is not called, every item goes
\* straight to save().
ValidateTicketUnchecked(p) ==
    /\ pc[p] = "validate"
    /\ has_tickets[p]
    /\ idx[p] <= Len(tickets_data[p])
    /\ pc' = [pc EXCEPT ![p] = "save"]
    /\ UNCHANGED <<orders, tickets, idx, stagedTickets, result, nextOrderId, user,
                   has_tickets, tickets_data, order, geomVars>>

\* TicketCreateSerializer(data=ticket_data).is_valid(raise_exception=True) for
\* the item at idx: the movie_session primary key is resolved, then validate()
\* checks the hall bounds and whether the seat is already taken.
ValidateTicket(p) ==
    /\ pc[p] = "validate"
    /\ has_tickets[p]
    /\ idx[p] <= Len(tickets_data[p])
    /\ LET attrs == tickets_data[p][idx[p]]
       IN  IF attrs.movie_session \notin SessionIds
             THEN Raise(p, "SessionNotFound")
           ELSE LET cinema_hall == CinemaHalls[MovieSessions[attrs.movie_session]]
                    error == Validate(attrs, cinema_hall, Visible(p))
                IN  IF error # "ok" THEN Raise(p, error)
                    ELSE /\ pc' = [pc EXCEPT ![p] = "save"]
                         /\ UNCHANGED <<orders, tickets, idx, stagedTickets, result>>
    /\ UNCHANGED <<nextOrderId, user, has_tickets, tickets_data, order, geomVars>>

\* Fault variant of SaveTicket: the INSERT is visible to every reader at once
\* (autocommit), not held back until the transaction commits.
SaveTicketAutocommit(p) ==
    /\ pc[p] = "save"
    /\ LET t == NewTicket(tickets_data[p][idx[p]], order[p])
       IN  IF UniqueViolation(Visible(p), t)
             THEN Raise(p, "IntegrityError")
           ELSE /\ tickets' = tickets \cup {t}
                /\ idx' = [idx EXCEPT ![p] = @ + 1]
                /\ pc' = [pc EXCEPT ![p] = "validate"]
                /\ UNCHANGED <<orders, stagedTickets, result>>
    /\ UNCHANGED <<nextOrderId, user, has_tickets, tickets_data, order, geomVars>>

\* Fault variant of SaveTicket: a conflicting INSERT is retried inside the
\* call instead of being raised.
SaveTicketRetrying(p) ==
    /\ pc[p] = "save"
    /\ LET t == NewTicket(tickets_data[p][idx[p]], order[p])
       IN  IF UniqueViolation(Visible(p), t)
             THEN UNCHANGED <<orders, tickets, idx, stagedTickets, result, pc>>
           ELSE /\ stagedTickets' = [stagedTickets EXCEPT ![p] = @ \cup {t}]
                /\ idx' = [idx EXCEPT ![p] = @ + 1]
                /\ pc' = [pc EXCEPT ![p] = "validate"]
                /\ UNCHANGED <<orders, tickets, result>>
    /\ UNCHANGED <<nextOrderId, user, has_tickets, tickets_data, order, geomVars>>

\* ticket_serializer.save(order=order): INSERT of the Ticket row inside the
\* transaction.  A violation of the uniqueness constraint raises IntegrityError,
\* which nothing in create() or the view catches.
SaveTicket(p) ==
    /\ pc[p] = "save"
    /\ LET t == NewTicket(tickets_data[p][idx[p]], order[p])
       IN  IF UniqueViolation(Visible(p), t)
             THEN Raise(p, "IntegrityError")
           ELSE /\ stagedTickets' = [stagedTickets EXCEPT ![p] = @ \cup {t}]
                /\ idx' = [idx EXCEPT ![p] = @ + 1]
                /\ pc' = [pc EXCEPT ![p] = "validate"]
                /\ UNCHANGED <<orders, tickets, result>>
    /\ UNCHANGED <<nextOrderId, user, has_tickets, tickets_data, order, geomVars>>

\* The for loop is exhausted: `return order` leaves the atomic block and the
\* transaction commits.  The store checks the written rows against what other
\* transactions committed meanwhile; a conflict raises IntegrityError and
\* rolls back.
CommitOrder(p) ==
    /\ pc[p] = "validate"
    /\ has_tickets[p]
    /\ idx[p] > Len(tickets_data[p])
    /\ IF \E t \in stagedTickets[p] : UniqueViolation(tickets, t)
         THEN Raise(p, "IntegrityError")
       ELSE /\ orders' = orders \cup {[id |-> order[p], user |-> user[p]]}
            /\ tickets' = tickets \cup stagedTickets[p]
            /\ stagedTickets' = [stagedTickets EXCEPT ![p] = {}]
            /\ result' = [result EXCEPT ![p] = "ok"]
            /\ pc' = [pc EXCEPT ![p] = "done"]
            /\ UNCHANGED idx
    /\ UNCHANGED <<nextOrderId, user, has_tickets, tickets_data, order, geomVars>>

Next ==
    \E p \in Handlers :
        \/ CreateOrder(p)
        \/ IterateNone(p)
        \/ ValidateTicket(p)
        \/ SaveTicket(p)
        \/ CommitOrder(p)

Spec == Init /\ [][Next]_vars

\* A step of a call that has begun.  The request thread runs create() to its
\* end: no step of it waits for another call, so a begun call keeps stepping.
HandlerStep(p) ==
    \/ IterateNone(p)
    \/ ValidateTicket(p)
    \/ SaveTicket(p)
    \/ CommitOrder(p)

FairSpec == Spec /\ \A p \in Handlers : WF_vars(HandlerStep(p))

\* ---------------------------------------------------------------- serial calls

\* The same calls run one after another: a call begins only when no other
\* call is running, so a call with a larger Order id began after every call
\* with a smaller one had completed.
BeginAlone(p) ==
    /\ \A q \in Handlers \ {p} : pc[q] \in {"idle", "done"}
    /\ CreateOrder(p)

NextSerial ==
    \E p \in Handlers :
        \/ BeginAlone(p)
        \/ IterateNone(p)
        \/ ValidateTicket(p)
        \/ SaveTicket(p)
        \/ CommitOrder(p)

SpecSerial == Init /\ [][NextSerial]_vars

\* ---------------------------------------------------------------- geometry

\* The range checks of TicketCreateSerializer.validate on their own: any hall
\* up to MaxHallDim x MaxHallDim and any row and seat from -1 to one past the
\* largest hall.
InitGeom ==
    /\ orders = {}
    /\ tickets = {}
    /\ nextOrderId = 1
    /\ pc = [p \in Handlers |-> "idle"]
    /\ user = [p \in Handlers |-> 1]
    /\ has_tickets = [p \in Handlers |-> FALSE]
    /\ tickets_data = [p \in Handlers |-> <<>>]
    /\ idx = [p \in Handlers |-> 1]
    /\ order = [p \in Handlers |-> 0]
    /\ stagedTickets = [p \in Handlers |-> {}]
    /\ result = [p \in Handlers |-> "none"]
    /\ gHall \in [rows : 1 .. MaxHallDim, seats_in_row : 1 .. MaxHallDim]
    /\ gRow \in -1 .. MaxHallDim + 1
    /\ gSeat \in -1 .. MaxHallDim + 1
    /\ gVerdict = "unchecked"
    /\ gTaken \in BOOLEAN
    /\ gError = "unchecked"

CheckGeometry ==
    /\ gVerdict = "unchecked"
    /\ gVerdict' = ValidateGeometry(gRow, gSeat, gHall)
    /\ UNCHANGED <<orders, tickets, nextOrderId, pc, user, has_tickets, tickets_data,
                   idx, order, stagedTickets, result, gHall, gRow, gSeat,
                   gTaken, gError>>

\* validate() as a whole on the drawn row and seat, with a Ticket table that
\* holds a row for exactly that (row, seat) when gTaken.
RunValidate ==
    /\ gError = "unchecked"
    /\ LET attrs == Item(1, gRow, gSeat)
           rows == IF gTaken THEN {NewTicket(attrs, 1)} ELSE {}
       IN  gError' = Validate(attrs, gHall, rows)
    /\ UNCHANGED <<orders, tickets, nextOrderId, pc, user, has_tickets, tickets_data,
                   idx, order, stagedTickets, result, gHall, gRow, gSeat,
                   gVerdict, gTaken>>

NextGeom == CheckGeometry \/ RunValidate

SpecGeom == InitGeom /\ [][NextGeom]_vars

\* ---------------------------------------------------------------- properties

Done(p) == pc[p] = "done"
Succeeded(p) == pc[p] = "done" /\ result[p] = "ok"
Rejected(p) == pc[p] = "done" /\ result[p] # "ok"

\* The Ticket rows of `rows` that hold the seat an item names.
TicketsFor(rows, item) == {t \in rows : SeatTaken({t}, item)}

\* How many items of handler p's request name session s.
RequestedFor(p, s) ==
    Cardinality({i \in 1 .. Len(tickets_data[p]) : tickets_data[p][i].movie_session = s})

\* Handler p's request lists existing, in-range seats only, each once.
WellFormedRequest(p) ==
    /\ has_tickets[p]
    /\ Len(tickets_data[p]) >= 1
    /\ Range(tickets_data[p]) \subseteq ValidItems
    /\ Cardinality(Range(tickets_data[p])) = Len(tickets_data[p])

\* C1: when all the concurrent calls request the identical single seat and
\* have all completed, exactly one of them succeeded, every other one ended
\* with the seat-taken error, and the seat has exactly one sold ticket.
C1_MutualExclusion ==
    \A item \in ValidItems :
        (\A p \in Handlers : Done(p) /\ has_tickets[p] /\ tickets_data[p] = <<item>>)
            => /\ Cardinality({p \in Handlers : result[p] = "ok"}) = 1
               /\ \A p \in Handlers : result[p] \in {"ok", "SeatTaken"}
               /\ Cardinality(TicketsFor(tickets, item)) = 1

\* C2: no two committed tickets share the same (movie_session, row, seat).
C2_UniqueSeat ==
    \A t1 \in tickets : \A t2 \in tickets :
        (/\ t1.movie_session = t2.movie_session
         /\ t1.row = t2.row
         /\ t1.seat = t2.seat) => t1 = t2

\* Two calls raced for one seat: both passed the pre-check and wrote the row,
\* one committed and the store refused the other.
C2_Witness ==
    \E p \in Handlers : \E q \in Handlers \ {p} :
        /\ Succeeded(p)
        /\ Done(q) /\ result[q] = "IntegrityError"
        /\ Range(tickets_data[p]) \cap Range(tickets_data[q]) # {}
        /\ tickets # {}

\* C3: a call that ended with any error left no Order row and no Ticket row
\* of its own in the committed store.
C3_AllOrNothing ==
    \A p \in Handlers :
        Rejected(p) => /\ \A o \in orders : o.id # order[p]
                       /\ \A t \in tickets : t.order # order[p]

\* A call failed at its second item, after the first had been validated and
\* inserted.
C3_Witness ==
    \E p \in Handlers :
        /\ Rejected(p)
        /\ idx[p] = 2
        /\ Len(tickets_data[p]) = 2
        /\ result[p] \in {"SessionNotFound", "GeometryError.row", "SeatTaken"}

\* C4: a call with an absent or empty ticket list ends with EmptyOrderError,
\* and every committed Order owns at least one Ticket.
C4_NonEmptyOrder ==
    /\ \A p \in Handlers :
          (Done(p) /\ (~has_tickets[p] \/ tickets_data[p] = <<>>))
              => result[p] = "EmptyOrderError"
    /\ \A o \in orders : \E t \in tickets : t.order = o.id

\* Handler p's call commits in this step / is rejected in this step.
Commits(p) == result[p] = "none" /\ result'[p] = "ok"
Rejects(p) == result[p] = "none" /\ result'[p] \notin {"none", "ok"}

\* C5: tickets_available of a session is the hall's capacity minus the
\* session's committed tickets; a step that commits an order lowers it by
\* exactly the number of items the order requested for that session, and a
\* step that rejects a call leaves it unchanged.
C5_AvailabilityConsistency ==
    [][\A s \in SessionIds :
          LET hall == CinemaHalls[MovieSessions[s]]
          IN  /\ TicketsAvailable(s) = Capacity(hall)
                    - Cardinality({t \in tickets : t.movie_session = s})
              /\ \A p \in Handlers :
                    /\ Commits(p) =>
                          TicketsAvailable(s)' = TicketsAvailable(s) - RequestedFor(p, s)
                    /\ Rejects(p) => TicketsAvailable(s)' = TicketsAvailable(s)]_vars

\* An order of two tickets for session 1 is committed while session 2 has
\* a ticket of another order: session 1 shows 0 of 2 seats, session 2 0 of 1.
C5_Witness ==
    /\ \E p \in Handlers : Succeeded(p) /\ RequestedFor(p, 1) = 2
    /\ \E q \in Handlers : Succeeded(q) /\ RequestedFor(q, 2) = 1
    /\ TicketsAvailable(1) = 0
    /\ TicketsAvailable(2) = 0

\* C6: the range checks accept (row, seat) for a hall exactly when
\* 1 <= row <= rows and 1 <= seat <= seats_in_row.
C6_Geometry ==
    gVerdict # "unchecked" =>
        ((gVerdict = "ok") <=> (/\ 1 <= gRow /\ gRow <= gHall.rows
                                /\ 1 <= gSeat /\ gSeat <= gHall.seats_in_row))

\* The last seat of the last row of a hall with several rows and seats is
\* accepted.
C6_Witness ==
    /\ gVerdict = "ok"
    /\ gHall.rows > 1 /\ gRow = gHall.rows
    /\ gHall.seats_in_row > 1 /\ gSeat = gHall.seats_in_row

\* C7: a call for existing, in-range, distinct seats that is rejected is
\* rejected with the seat-taken error, whether the pre-check or the store's
\* constraint found the seat sold.
C7_ConflictIsSeatTaken ==
    \A p \in Handlers :
        (Rejected(p) /\ WellFormedRequest(p)) => result[p] = "SeatTaken"

\* C8: a step that commits handler p's call adds exactly one Order, with
\* the fresh id of the call and the call's user, and exactly one Ticket per
\* requested item, with that item's session, row and seat and owned by the
\* new Order; nothing else is added and nothing is removed.
C8_CommitAddsOrderAndTickets ==
    [][\A p \in Handlers :
          Commits(p) =>
              LET items == tickets_data[p]
              IN  /\ order[p] \notin {o.id : o \in orders}
                  /\ orders' = orders \cup {[id |-> order[p], user |-> user[p]]}
                  /\ tickets \subseteq tickets'
                  /\ Cardinality(tickets' \ tickets) = Len(items)
                  /\ \A i \in 1 .. Len(items) :
                        \E t \in tickets' \ tickets :
                            SeatTaken({t}, items[i]) /\ t.order = order[p]
                  /\ \A t \in tickets' \ tickets :
                        /\ t.order = order[p]
                        /\ \E i \in 1 .. Len(items) : SeatTaken({t}, items[i])]_vars

\* A call with two items has committed, after another call had committed.
C8_Witness ==
    \E p \in Handlers : \E q \in Handlers \ {p} :
        /\ Succeeded(p) /\ Len(tickets_data[p]) = 2
        /\ Succeeded(q) /\ order[q] < order[p]
        /\ Cardinality({t \in tickets : t.order = order[p]}) = 2

\* C9: the orders listed for user u are exactly the orders of the calls
\* that user u made and that committed.
C9_OwnOrdersOnly ==
    \A u \in Users :
        {o.id : o \in GetQueryset(u)}
            = {order[p] : p \in {q \in Handlers : Succeeded(q) /\ user[q] = u}}

\* Two different users each have a committed order.
C9_Witness ==
    \E p \in Handlers : \E q \in Handlers :
        /\ Succeeded(p) /\ Succeeded(q)
        /\ user[p] # user[q]
        /\ GetQueryset(user[p]) # {}
        /\ GetQueryset(user[q]) # {}

\* C10: in every state, the seats a reader finds sold for a session
\* (capacity minus tickets_available) are exactly the items requested for it
\* by the calls that have committed: rows of open or rolled-back transactions
\* do not count.
C10_OnlyCommittedCounted ==
    \A s \in SessionIds :
        Capacity(CinemaHalls[MovieSessions[s]]) - TicketsAvailable(s)
            = Cardinality({pi \in Handlers \X (1 .. MaxTickets) :
                             /\ Succeeded(pi[1])
                             /\ pi[2] <= Len(tickets_data[pi[1]])
                             /\ tickets_data[pi[1]][pi[2]].movie_session = s})

\* One transaction is open with a ticket written for session 1, another was
\* rolled back after writing one, and the reader still sees every seat free.
C10_Witness ==
    \E p \in Handlers : \E q \in Handlers \ {p} :
        /\ pc[p] \in {"validate", "save"}
        /\ \E t \in stagedTickets[p] : t.movie_session = 1
        /\ Rejected(q) /\ idx[q] = 2
        /\ TicketsAvailable(1) = 2

\* The errors is_valid() raises for an item.
ValidationErrors == {"SessionNotFound", "GeometryError.row", "GeometryError.seat", "SeatTaken"}

\* The positions of handler p's request whose item names no existing seat.
BadPositions(p) ==
    {i \in 1 .. Len(tickets_data[p]) : tickets_data[p][i] \notin ValidItems}

\* C11: the loop never moves past an item that fails validation, the rows
\* written so far are those of the items before the loop position, and a
\* call rejected by validation stopped at the first failing item and reports
\* that item's error: unknown session, out of range, or seat taken.
C11_FirstFailingItem ==
    \A p \in Handlers :
        (has_tickets[p] /\ pc[p] # "idle") =>
            LET items == tickets_data[p]
            IN  /\ \A i \in BadPositions(p) : idx[p] <= i
                /\ \A t \in stagedTickets[p] :
                      \E j \in 1 .. idx[p] - 1 : SeatTaken({t}, items[j])
                /\ (Rejected(p) /\ result[p] \in ValidationErrors) =>
                      /\ idx[p] <= Len(items)
                      /\ (result[p] = "SessionNotFound")
                            <=> (items[idx[p]].movie_session \notin SessionIds)
                      /\ (result[p] = "SeatTaken") <=> (items[idx[p]] \in ValidItems)
                      /\ (result[p] \in {"GeometryError.row", "GeometryError.seat"})
                            <=> (/\ items[idx[p]].movie_session \in SessionIds
                                 /\ items[idx[p]] \notin ValidItems)

\* A request whose two items both fail validation, differently, was rejected
\* with the error of the first one.
C11_Witness ==
    \E p \in Handlers :
        /\ Rejected(p)
        /\ BadPositions(p) = {1, 2}
        /\ tickets_data[p][1] # tickets_data[p][2]
        /\ idx[p] = 1
        /\ result[p] = "GeometryError.row"

SameSeat(t, item) ==
    /\ t.movie_session = item.movie_session
    /\ t.row = item.row
    /\ t.seat = item.seat

\* The positions of handler q's request whose seat is held by a committed
\* ticket of an order with a smaller id (under SpecSerial: an order that
\* committed before q's call began).
SoldBefore(q) ==
    {i \in 1 .. Len(tickets_data[q]) :
        \E t \in tickets : SameSeat(t, tickets_data[q][i]) /\ t.order < order[q]}

\* C13 as stated, for calls that run one after another: a completed call
\* whose request contains a seat that was sold before the call began ended
\* with the seat-taken error.
C13_LaterCallGetsSeatTaken ==
    \A q \in Handlers :
        (Done(q) /\ SoldBefore(q) # {}) => result[q] = "SeatTaken"

\* What holds of every completed later call whose request contains a sold seat.
LaterCallRejected(q) ==
    (Done(q) /\ SoldBefore(q) # {}) =>
        /\ result[q] # "ok"
        /\ \A i \in SoldBefore(q) : idx[q] <= i
        /\ idx[q] \in SoldBefore(q) => result[q] = "SeatTaken"

\* C13 as the code has it: no step changes or removes a committed Order or
\* Ticket, and a later call whose request contains a sold seat never commits:
\* it stops at or before the first such item, with the seat-taken error when
\* it stops at that item, and with the error of an earlier item otherwise.
C13_SoldSeatStaysSold ==
    [][/\ tickets \subseteq tickets'
       /\ orders \subseteq orders'
       /\ \A q \in Handlers : LaterCallRejected(q)']_vars

\* The same user asks again for the one seat of an order that has committed
\* and is refused with the seat-taken error; the first ticket is still there.
C13_Witness ==
    \E p \in Handlers : \E q \in Handlers \ {p} :
        /\ Succeeded(p) /\ Len(tickets_data[p]) = 1
        /\ Rejected(q) /\ tickets_data[q] = tickets_data[p]
        /\ user[q] = user[p]
        /\ order[p] < order[q]
        /\ result[q] = "SeatTaken"
        /\ \E t \in tickets : SameSeat(t, tickets_data[p][1]) /\ t.order = order[p]

\* Handler p's transaction is open.
InTransaction(p) == pc[p] \in {"validate", "save"}

\* C14: every call that has begun eventually completes; a completed call
\* has either committed its Order or was rejected and left no Order, and in
\* both cases its transaction is closed: none of its rows is still pending.
C14_CallCompletes ==
    /\ \A p \in Handlers : InTransaction(p) ~> Done(p)
    /\ [](\A p \in Handlers :
             Done(p) => /\ ~InTransaction(p)
                        /\ stagedTickets[p] = {}
                        /\ result[p] # "none"
                        /\ (result[p] = "ok") <=> (\E o \in orders : o.id = order[p]))

\* Both calls have completed: one after a conflict at its INSERT, the other
\* with a commit.
C14_Witness ==
    \E p \in Handlers : \E q \in Handlers \ {p} :
        /\ Succeeded(p)
        /\ Done(q) /\ result[q] = "IntegrityError"
        /\ stagedTickets[p] = {} /\ stagedTickets[q] = {}

\* The positions of handler p's request that repeat the seat of an earlier
\* position.
RepeatPositions(p) ==
    {j \in 1 .. Len(tickets_data[p]) :
        \E i \in 1 .. j - 1 : tickets_data[p][i] = tickets_data[p][j]}

\* C15: a completed call whose request lists a seat twice was rejected and
\* owns no committed Order or Ticket; it never got past the repeated item,
\* and when it stopped there the error is the seat-taken error; the seat is
\* sold only if another call's order holds it.
C15_DuplicateSeatRejected ==
    \A p \in Handlers :
        (Done(p) /\ RepeatPositions(p) # {}) =>
            /\ result[p] # "ok"
            /\ \A o \in orders : o.id # order[p]
            /\ \A t \in tickets : t.order # order[p]
            /\ \A j \in RepeatPositions(p) :
                  /\ idx[p] <= j
                  /\ idx[p] = j => result[p] = "SeatTaken"

\* The only call made asked twice for the same free seat: it was rejected at
\* the second item with the seat-taken error and the seat is still free.
C15_Witness ==
    \E p \in Handlers : \E q \in Handlers \ {p} :
        /\ pc[q] = "idle"
        /\ Rejected(p)
        /\ Len(tickets_data[p]) = 2
        /\ tickets_data[p][1] = tickets_data[p][2]
        /\ tickets_data[p][1] \in ValidItems
        /\ idx[p] = 2
        /\ result[p] = "SeatTaken"
        /\ tickets = {}
        /\ orders = {}

\* The committed Ticket rows of session s.
SessionTickets(rows, s) == {t \in rows : t.movie_session = s}

\* C16: no step removes or changes a committed Order or Ticket; a step that
\* commits no call (a call beginning, validating, inserting or being
\* rejected) leaves the Order and Ticket tables as they were; a step that
\* commits a call adds that call's Order only and leaves the tickets and the
\* tickets_available value of every session its request does not name as
\* they were.  (Halls and sessions are fixed data: no step of create()
\* writes them.)
C16_Frame ==
    [][/\ orders \subseteq orders'
       /\ tickets \subseteq tickets'
       /\ (\A p \in Handlers : ~Commits(p)) =>
             /\ orders' = orders
             /\ tickets' = tickets
             /\ \A s \in SessionIds : TicketsAvailable(s)' = TicketsAvailable(s)
       /\ \A p \in Handlers :
             Commits(p) =>
                 /\ {o.id : o \in orders' \ orders} = {order[p]}
                 /\ \A s \in SessionIds :
                       RequestedFor(p, s) = 0 =>
                           /\ SessionTickets(tickets', s) = SessionTickets(tickets, s)
                           /\ TicketsAvailable(s)' = TicketsAvailable(s)]_vars

\* Session 2 had its seat sold by one order; then a call for one seat of
\* session 1 committed and a seat of session 1 is still free.
C16_Witness ==
    \E p \in Handlers : \E q \in Handlers \ {p} :
        /\ Succeeded(q) /\ RequestedFor(q, 2) = 1 /\ RequestedFor(q, 1) = 0
        /\ Succeeded(p) /\ RequestedFor(p, 1) = 1 /\ RequestedFor(p, 2) = 0
        /\ order[q] < order[p]
        /\ TicketsAvailable(2) = 0
        /\ TicketsAvailable(1) = 1

RowOutOfRange == gRow < 1 \/ gRow > gHall.rows
SeatOutOfRange == gSeat < 1 \/ gSeat > gHall.seats_in_row

\* C17: the range checks report the row whenever the row is out of range,
\* also when the seat is out of range too, and report the seat exactly when
\* the row is in range and the seat is not; validate() as a whole raises the
\* same range error even when a Ticket row holds that (row, seat), and the
\* seat-taken error only for a row and seat that are both in range.
C17_RowBeforeSeatBeforeLookup ==
    /\ gVerdict # "unchecked" =>
          /\ (gVerdict = "row") <=> RowOutOfRange
          /\ (gVerdict = "seat") <=> (~RowOutOfRange /\ SeatOutOfRange)
    /\ gError # "unchecked" =>
          /\ (gError = "GeometryError.row") <=> RowOutOfRange
          /\ (gError = "GeometryError.seat") <=> (~RowOutOfRange /\ SeatOutOfRange)
          /\ (gError = "SeatTaken") <=> (~RowOutOfRange /\ ~SeatOutOfRange /\ gTaken)

\* Row and seat are both past the hall and a Ticket row holds them: the range
\* checks and validate() both report the row.
C17_Witness ==
    /\ gRow > gHall.rows
    /\ gSeat > gHall.seats_in_row
    /\ gTaken
    /\ gVerdict = "row"
    /\ gError = "GeometryError.row"

====
